---------------------------- MODULE Spec2Model ----------------------------
(***************************************************************************)
(* A model of create_features (src/src/features/build_features.py): the    *)
(* feature derivation engine of Bitcoin-Daily-Navigator.                   *)
(*                                                                         *)
(* A table (DataFrame) is a record [cols, index, data]: the ordered column *)
(* names, the row labels (dates, here 1..N) and one cell sequence per      *)
(* column.  Tables live in a heap and are reached through references, so   *)
(* that copying (df.copy()) and in-place mutation (df_features[...] = ..., *)
(* drop(inplace=True), dropna(inplace=True)) are what the code makes them. *)
(*                                                                         *)
(* A cell is a float, kept as <<kind, n, d>>:                              *)
(*   <<"nan",0,0>>   NaN                                                   *)
(*   <<"q",n,d>>     the exact rational n/d, in lowest terms, d > 0        *)
(*   <<"pos",0,0>>   a finite float > 0 whose digits are past Precision    *)
(*   <<"neg",0,0>>   a finite float < 0 whose digits are past Precision    *)
(*   <<"fin",0,0>>   a finite float of untracked sign and value            *)
(*   <<"inf",1,0>>   +infinity                                             *)
(* Arithmetic is IEEE-754's on the special values (0/0 = NaN, x/0 = inf,   *)
(* NaN propagates) and exact on the rationals up to Precision.             *)
(***************************************************************************)
EXTENDS Integers, Sequences, FiniteSets, TLC

\* ------------------------------------------------------------- bounds
\* Longest input series (rows).
MaxLen == 22
\* Invocations of create_features in one session.
MaxRuns == 2
\* Largest numerator / denominator a cell keeps exactly.
Precision == 20000

\* ------------------------------------------- the configured parameters
SmaShort == 5
SmaLong == 10
EmaShort == 5
EmaLong == 10
RsiCom == 13
MacdFast == 12
MacdSlow == 26
MacdSignal == 9
BbWindow == 20
BbK == 2
AvgVolWindow == 10

\* ------------------------------------------------------------- floats
NaN == <<"nan", 0, 0>>
Inf == <<"inf", 1, 0>>
PosF == <<"pos", 0, 0>>
NegF == <<"neg", 0, 0>>
FinF == <<"fin", 0, 0>>

Abs(n) == IF n < 0 THEN -n ELSE n

RECURSIVE GCD(_, _)
GCD(a, b) == IF b = 0 THEN a ELSE GCD(b, a % b)

\* The float n/d (d > 0): exact while it fits Precision, its sign after that.
Mk(n, d) ==
  LET g == GCD(Abs(n), d)
      nn == n \div g
      dd == d \div g
  IN  IF n = 0 THEN <<"q", 0, 1>>
      ELSE IF Abs(nn) <= Precision /\ dd <= Precision THEN <<"q", nn, dd>>
      ELSE IF n > 0 THEN PosF ELSE NegF

Num(n) == <<"q", n, 1>>
Zero == <<"q", 0, 1>>

IsNaN(x) == x[1] = "nan"
IsZero(x) == x[1] = "q" /\ x[2] = 0
\* 1, -1, 0, or 2 when the sign is not tracked
Sgn(x) ==
  CASE x[1] = "q" -> (IF x[2] > 0 THEN 1 ELSE IF x[2] < 0 THEN -1 ELSE 0)
    [] x[1] = "pos" -> 1
    [] x[1] = "inf" -> 1
    [] x[1] = "neg" -> -1
    [] OTHER -> 2

BySign(s) == IF s = 1 THEN PosF ELSE IF s = -1 THEN NegF ELSE IF s = 0 THEN Zero ELSE FinF

NegV(x) ==
  CASE x[1] = "q" -> <<"q", -x[2], x[3]>>
    [] x[1] = "pos" -> NegF
    [] x[1] = "neg" -> PosF
    [] OTHER -> x

Add(a, b) ==
  IF IsNaN(a) \/ IsNaN(b) THEN NaN
  ELSE IF a[1] = "inf" \/ b[1] = "inf" THEN Inf
  ELSE IF a[1] = "q" /\ b[1] = "q" THEN Mk(a[2] * b[3] + b[2] * a[3], a[3] * b[3])
  ELSE IF IsZero(a) THEN b
  ELSE IF IsZero(b) THEN a
  ELSE IF Sgn(a) = Sgn(b) THEN BySign(Sgn(a))
  ELSE FinF

Sub(a, b) == Add(a, NegV(b))

Mul(a, b) ==
  IF IsNaN(a) \/ IsNaN(b) THEN NaN
  ELSE IF a[1] = "q" /\ b[1] = "q" THEN Mk(a[2] * b[2], a[3] * b[3])
  ELSE IF IsZero(a) \/ IsZero(b) THEN Zero
  ELSE IF Sgn(a) = 2 \/ Sgn(b) = 2 THEN FinF
  ELSE BySign(Sgn(a) * Sgn(b))

\* IEEE-754 division: 0/0 is NaN, x/0 is infinite, x/inf is 0.
Div(a, b) ==
  IF IsNaN(a) \/ IsNaN(b) THEN NaN
  ELSE IF IsZero(b) THEN (IF IsZero(a) THEN NaN ELSE Inf)
  ELSE IF b[1] = "inf" THEN (IF a[1] = "inf" THEN NaN ELSE Zero)
  ELSE IF a[1] = "inf" THEN Inf
  ELSE IF a[1] = "q" /\ b[1] = "q"
       THEN (IF b[2] > 0 THEN Mk(a[2] * b[3], a[3] * b[2])
                         ELSE Mk(-(a[2] * b[3]), a[3] * (-b[2])))
  ELSE IF IsZero(a) THEN Zero
  ELSE IF Sgn(a) = 2 \/ Sgn(b) = 2 THEN FinF
  ELSE BySign(Sgn(a) * Sgn(b))

\* sqrt of a float >= 0: 0 stays 0, the rest is a positive float
Sqrt(x) == IF IsNaN(x) THEN NaN ELSE IF IsZero(x) THEN Zero ELSE PosF

\* numpy.sign
Sign(x) == IF IsNaN(x) THEN NaN ELSE IF Sgn(x) = 2 THEN FinF ELSE Num(Sgn(x))

\* x > 0 and x < 0 as pandas compares: False on NaN
Gt0(x) == ~IsNaN(x) /\ Sgn(x) = 1
Lt0(x) == ~IsNaN(x) /\ Sgn(x) = -1


\* ------------------------------------------------------------- series
\* A Series is a sequence of floats; position t of the code is index t+1.
\* s[lo] + ... + s[hi], summed by halves
RECURSIVE SumRange(_, _, _)
SumRange(s, lo, hi) ==
  IF lo > hi THEN Zero
  ELSE IF lo = hi THEN s[lo]
  ELSE Add(SumRange(s, lo, (lo + hi) \div 2), SumRange(s, ((lo + hi) \div 2) + 1, hi))

\* Series.rolling(window=w).mean(): undefined until w observations are there
RollMean(s, w) ==
  [i \in 1..Len(s) |-> IF i < w THEN NaN ELSE Div(SumRange(s, i - w + 1, i), Num(w))]

\* the squared deviations of s[lo..hi] from mean, summed
SumSqDev(s, mean, lo, hi) ==
  SumRange([k \in 1..hi |-> Mul(Sub(s[k], mean), Sub(s[k], mean))], lo, hi)

\* the sample standard deviation (ddof = 1) of s[lo..hi] around its mean
StdOf(s, lo, hi, mean) == Sqrt(Div(SumSqDev(s, mean, lo, hi), Num(hi - lo)))

\* Series.rolling(window=w).std()
RollStd(s, w) ==
  [i \in 1..Len(s) |->
     IF i < w THEN NaN
     ELSE StdOf(s, i - w + 1, i, Div(SumRange(s, i - w + 1, i), Num(w)))]

\* Series.ewm(alpha = an/ad, adjust=False).mean():
\* y[0] = x[0], y[t] = alpha*x[t] + (1-alpha)*y[t-1]
RECURSIVE EwmUpTo(_, _, _, _)
EwmUpTo(s, an, ad, k) ==
  IF k = 0 THEN << >>
  ELSE IF k = 1 THEN <<s[1]>>
  ELSE LET prev == EwmUpTo(s, an, ad, k - 1)
       IN  Append(prev, Add(Mul(Mk(an, ad), s[k]), Mul(Mk(ad - an, ad), prev[k - 1])))

Ewm(s, an, ad) == EwmUpTo(s, an, ad, Len(s))

\* A span read as Wilder's period: alpha = 1/n.
EwmSpanWilder(s, span) == Ewm(s, 1, span)

\* ewm(span=n): alpha = 2/(n+1);  ewm(com=c): alpha = 1/(1+c)
EwmSpan(s, span) == Ewm(s, 2, span + 1)
EwmCom(s, com) == Ewm(s, 1, 1 + com)

\* Series.shift(n)
Shift(s, n) == [i \in 1..Len(s) |-> IF i <= n THEN NaN ELSE s[i - n]]

\* Series.diff()
Diff(s) == [i \in 1..Len(s) |-> IF i = 1 THEN NaN ELSE Sub(s[i], s[i - 1])]

\* Series.pct_change()
PctChange(s) == [i \in 1..Len(s) |-> IF i = 1 THEN NaN ELSE Sub(Div(s[i], s[i - 1]), Num(1))]

\* Series.cumsum(): NaN is skipped, and stays NaN where it stood
RECURSIVE SumSkipNa(_, _)
SumSkipNa(s, k) ==
  IF k = 0 THEN Zero
  ELSE IF IsNaN(s[k]) THEN SumSkipNa(s, k - 1)
  ELSE Add(SumSkipNa(s, k - 1), s[k])

CumSum(s) == [i \in 1..Len(s) |-> IF IsNaN(s[i]) THEN NaN ELSE SumSkipNa(s, i)]

\* element-wise operations of two aligned Series, and of a Series and a scalar
SAdd(a, b) == [i \in 1..Len(a) |-> Add(a[i], b[i])]
SSub(a, b) == [i \in 1..Len(a) |-> Sub(a[i], b[i])]
SMul(a, b) == [i \in 1..Len(a) |-> Mul(a[i], b[i])]
SDiv(a, b) == [i \in 1..Len(a) |-> Div(a[i], b[i])]
SScale(a, k) == [i \in 1..Len(a) |-> Mul(a[i], Num(k))]

\* delta.where(delta > 0, 0) and -delta.where(delta < 0, 0)
Gain(delta) == [i \in 1..Len(delta) |-> IF Gt0(delta[i]) THEN delta[i] ELSE Zero]
Loss(delta) == [i \in 1..Len(delta) |-> NegV(IF Lt0(delta[i]) THEN delta[i] ELSE Zero)]

\* 100 - (100 / (1 + rs))
RsiOf(rs) ==
  [i \in 1..Len(rs) |-> Sub(Num(100), Div(Num(100), Add(Num(1), rs[i])))]

\* ------------------------------------------------------------- tables
Range(q) == {q[i] : i \in 1..Len(q)}

EmptyTable == [cols |-> << >>, index |-> << >>, data |-> << >>]

\* `col in df.columns`
HasCol(t, c) == c \in Range(t.cols)

\* df[c] = s: a new column goes last, an existing one keeps its place
SetCol(t, c, s) ==
  [cols |-> IF HasCol(t, c) THEN t.cols ELSE Append(t.cols, c),
   index |-> t.index,
   data |-> [x \in Range(t.cols) \cup {c} |-> IF x = c THEN s ELSE t.data[x]]]

RECURSIVE Without(_, _)
Without(q, c) ==
  IF q = << >> THEN << >>
  ELSE IF Head(q) = c THEN Without(Tail(q), c)
  ELSE <<Head(q)>> \o Without(Tail(q), c)

\* df.drop(columns=[c], inplace=True)
DropCol(t, c) ==
  [cols |-> Without(t.cols, c),
   index |-> t.index,
   data |-> [x \in Range(t.cols) \ {c} |-> t.data[x]]]

\* the positions of a row set, in their order
RECURSIVE Positions(_, _)
Positions(n, keep) ==
  IF n = 0 THEN << >>
  ELSE IF n \in keep THEN Append(Positions(n - 1, keep), n)
  ELSE Positions(n - 1, keep)

TakeRows(t, pos) ==
  [cols |-> t.cols,
   index |-> [k \in 1..Len(pos) |-> t.index[pos[k]]],
   data |-> [x \in Range(t.cols) |-> [k \in 1..Len(pos) |-> t.data[x][pos[k]]]]]

\* the rows with no NaN in any column
DenseRows(t) ==
  {i \in 1..Len(t.index) : \A c \in Range(t.cols) : ~IsNaN(t.data[c][i])}

\* A dropna that removes only the rows undefined in every column (how='all').
DropNaAll(t) ==
  TakeRows(t, Positions(Len(t.index),
                        {i \in 1..Len(t.index) : \E c \in Range(t.cols) : ~IsNaN(t.data[c][i])}))

\* A trimming that cuts the leading rows up to the last row with a NaN.
DropNaPrefix(t) ==
  TakeRows(t, Positions(Len(t.index),
                        {i \in 1..Len(t.index) :
                           \A r \in i..Len(t.index) :
                             \A c \in Range(t.cols) : ~IsNaN(t.data[c][r])}))

\* df.dropna(inplace=True): how='any' over every column
DropNa(t) == TakeRows(t, Positions(Len(t.index), DenseRows(t)))

\* A guard that also turns away a series shorter than the Bollinger window.
IsTooShort(t) == Len(t.index) < BbWindow \/ Len(t.cols) = 0

\* df.empty: no rows or no columns
IsEmpty(t) == Len(t.index) = 0 \/ Len(t.cols) = 0

\* ------------------------------------------------------------- inputs
\* The caller's Bar Series: dates 1..n, positive closes, volumes >= 0, no NaN.
ClosePatterns == {"flat", "rise", "fall", "zigzag"}
VolumePatterns == {"ones", "varied", "zerorun"}

CloseAt(pat, i) ==
  CASE pat = "flat" -> 2
    [] pat = "rise" -> i
    [] pat = "fall" -> MaxLen + 1 - i
    [] OTHER -> 2 + (i % 2)

\* "zerorun": no volume on the AvgVolWindow days that end one day before the last
VolumeAt(pat, i, n) ==
  CASE pat = "ones" -> 1
    [] pat = "varied" -> 1 + (i % 3)
    [] OTHER -> IF i < n /\ i >= n - AvgVolWindow THEN 0 ELSE 1

AllInputCols == <<"Open", "High", "Low", "Close", "Volume">>
ColumnSets == {AllInputCols, <<"Open", "High", "Low", "Close">>, <<"Open", "High", "Low", "Volume">>}

BarSeries(n, cpat, vpat, cols) ==
  [cols |-> cols,
   index |-> [i \in 1..n |-> i],
   data |-> [c \in Range(cols) |->
              [i \in 1..n |->
                 CASE c = "Volume" -> Num(VolumeAt(vpat, i, n))
                   [] c = "High" -> Num(CloseAt(cpat, i) + 1)
                   [] OTHER -> Num(CloseAt(cpat, i))]]]

\* --------------------------------------------- the indicator block
\* str.lower() on the library names a caller passes
Lower(name) == IF name = "TALIB" THEN "talib" ELSE name

\* The statements of the try block, in order, for each backend.  "drop" is
\* the removal of the intermediate columns that ends the block.
PandasStmts ==
  <<"SMA_5", "EMA_5", "SMA_10", "EMA_10", "RSI", "MACD", "MACD_Signal",
    "SMA_BB", "STD_BB", "Bollinger_Upper", "Bollinger_Lower", "OBV", "drop">>

TalibStmts ==
  <<"ta_values", "ta_SMA_5", "ta_EMA_5", "ta_SMA_10", "ta_EMA_10", "ta_RSI",
    "ta_MACD", "ta_BBANDS", "ta_OBV", "drop">>

\* The columns a statement reads: a missing one is a KeyError.
Reads(stmt) ==
  CASE stmt \in {"SMA_5", "EMA_5", "SMA_10", "EMA_10", "RSI", "MACD", "SMA_BB", "STD_BB"}
         -> {"Close"}
    [] stmt = "MACD_Signal" -> {"MACD"}
    [] stmt = "Bollinger_Upper" -> {"SMA_BB", "STD_BB"}
    [] stmt = "Bollinger_Lower" -> {"SMA_BB", "STD_BB"}
    [] stmt = "OBV" -> {"Volume", "Close"}
    [] stmt = "ta_values" -> {"Close", "Volume"}
    [] OTHER -> {}

\* What a TA-Lib function returns for n rows: an array of n floats, undefined
\* on a leading lookback that is the library's own.
TalibArray(n, lookback) == [i \in 1..n |-> IF i <= lookback THEN NaN ELSE FinF]

\* the RSI of the pandas branch
PandasRsi(close) ==
  LET dlt == Diff(close)
      avg_gain == EwmCom(Gain(dlt), RsiCom)
      avg_loss == EwmCom(Loss(dlt), RsiCom)
  IN  RsiOf(SDiv(avg_gain, avg_loss))

\* the OBV of the pandas branch
PandasObv(close, volume) ==
  LET cdiff == Diff(close)
  IN  CumSum(SMul(volume, [i \in 1..Len(cdiff) |-> Sign(cdiff[i])]))

DropIntermediates(t) ==
  LET t1 == IF HasCol(t, "SMA_BB") THEN DropCol(t, "SMA_BB") ELSE t
  IN  IF HasCol(t1, "STD_BB") THEN DropCol(t1, "STD_BB") ELSE t1

\* One statement of the block on table t (lb: the TA-Lib lookback).
Exec(stmt, t, lb) ==
  LET rows == Len(t.index) IN
  CASE stmt = "SMA_5" -> SetCol(t, "SMA_5", RollMean(t.data["Close"], SmaShort))
    [] stmt = "EMA_5" -> SetCol(t, "EMA_5", EwmSpan(t.data["Close"], EmaShort))
    [] stmt = "SMA_10" -> SetCol(t, "SMA_10", RollMean(t.data["Close"], SmaLong))
    [] stmt = "EMA_10" -> SetCol(t, "EMA_10", EwmSpan(t.data["Close"], EmaLong))
    [] stmt = "RSI" -> SetCol(t, "RSI", PandasRsi(t.data["Close"]))
    [] stmt = "MACD" ->
         SetCol(t, "MACD", SSub(EwmSpan(t.data["Close"], MacdFast),
                                EwmSpan(t.data["Close"], MacdSlow)))
    [] stmt = "MACD_Signal" -> SetCol(t, "MACD_Signal", EwmSpan(t.data["MACD"], MacdSignal))
    [] stmt = "SMA_BB" -> SetCol(t, "SMA_BB", RollMean(t.data["Close"], BbWindow))
    [] stmt = "STD_BB" -> SetCol(t, "STD_BB", RollStd(t.data["Close"], BbWindow))
    [] stmt = "Bollinger_Upper" ->
         SetCol(t, "Bollinger_Upper", SAdd(t.data["SMA_BB"], SScale(t.data["STD_BB"], BbK)))
    [] stmt = "Bollinger_Lower" ->
         SetCol(t, "Bollinger_Lower", SSub(t.data["SMA_BB"], SScale(t.data["STD_BB"], BbK)))
    [] stmt = "OBV" -> SetCol(t, "OBV", PandasObv(t.data["Close"], t.data["Volume"]))
    [] stmt = "ta_values" -> t
    [] stmt = "ta_SMA_5" -> SetCol(t, "SMA_5", TalibArray(rows, lb))
    [] stmt = "ta_EMA_5" -> SetCol(t, "EMA_5", TalibArray(rows, lb))
    [] stmt = "ta_SMA_10" -> SetCol(t, "SMA_10", TalibArray(rows, lb))
    [] stmt = "ta_EMA_10" -> SetCol(t, "EMA_10", TalibArray(rows, lb))
    [] stmt = "ta_RSI" -> SetCol(t, "RSI", TalibArray(rows, lb))
    [] stmt = "ta_MACD" ->
         SetCol(SetCol(t, "MACD", TalibArray(rows, lb)), "MACD_Signal", TalibArray(rows, lb))
    [] stmt = "ta_BBANDS" ->
         SetCol(SetCol(SetCol(t, "Bollinger_Upper", TalibArray(rows, lb)),
                       "Bollinger_Lower", TalibArray(rows, lb)),
                "SMA_BB", TalibArray(rows, lb))
    [] stmt = "ta_OBV" -> SetCol(t, "OBV", TalibArray(rows, lb))
    [] OTHER -> DropIntermediates(t)

\* Whether statement k raises: the environment's fault, or a KeyError.
Raises(stmts, k, t, fault) ==
  \/ (k = fault /\ stmts[k] # "drop")
  \/ ~(Reads(stmts[k]) \subseteq Range(t.cols))

\* ------------------------------------------- lags and interactions
\* Lines 132-136: the lag columns, assigned one by one; a missing source
\* column ends the stage with a KeyError that nothing catches.
LagSpecs ==
  <<[col |-> "Close_Lag_1", src |-> "Close", by |-> 1],
    [col |-> "Close_Lag_2", src |-> "Close", by |-> 2],
    [col |-> "Close_Lag_3", src |-> "Close", by |-> 3],
    [col |-> "Return_Lag_1", src |-> "daily_return", by |-> 1],
    [col |-> "Volume_Lag_1", src |-> "Volume", by |-> 1]>>

RECURSIVE LagsFrom(_, _)
LagsFrom(t, k) ==
  IF k > Len(LagSpecs) THEN [tbl |-> t, raised |-> FALSE]
  ELSE IF ~HasCol(t, LagSpecs[k].src) THEN [tbl |-> t, raised |-> TRUE]
  ELSE LagsFrom(SetCol(t, LagSpecs[k].col, Shift(t.data[LagSpecs[k].src], LagSpecs[k].by)),
                k + 1)

\* A lag stage that skips a lag whose source column is missing.
RECURSIVE LenientLagsFrom(_, _)
LenientLagsFrom(t, k) ==
  IF k > Len(LagSpecs) THEN [tbl |-> t, raised |-> FALSE]
  ELSE IF ~HasCol(t, LagSpecs[k].src) THEN LenientLagsFrom(t, k + 1)
  ELSE LenientLagsFrom(SetCol(t, LagSpecs[k].col,
                              Shift(t.data[LagSpecs[k].src], LagSpecs[k].by)), k + 1)

LagStageLenient(t) == LenientLagsFrom(t, 1)

LagStage(t) == LagsFrom(t, 1)

\* Lines 141-143
PriceVsSma(t) ==
  IF HasCol(t, "SMA_10")
  THEN SetCol(t, "Price_vs_SMA10", SDiv(t.data["Close"], t.data["SMA_10"]))
  ELSE t

\* Lines 145-152
VolumeVsAvg(t) ==
  IF HasCol(t, "Volume_Lag_1")
  THEN LET t1 == SetCol(t, "Avg_Volume_10", RollMean(t.data["Volume"], AvgVolWindow))
           t2 == SetCol(t1, "Volume_vs_Avg_Vol10",
                        SDiv(t1.data["Volume"], t1.data["Avg_Volume_10"]))
       IN  IF HasCol(t2, "Avg_Volume_10") THEN DropCol(t2, "Avg_Volume_10") ELSE t2
  ELSE t

InteractionStage(t) == VolumeVsAvg(PriceVsSma(t))

\* -------------------------------------------------------------- state
VARIABLES
  env,      \* the installation: [talib: is TA-Lib importable, fault: the statement
            \* of the try block that raises (0: none), lookback: TA-Lib's lookback]
  arg,      \* the caller's arguments: [df: a reference (0: None), lib: the library name]
  orig,     \* the caller's table as it was when the session began
  heap,     \* reference -> table
  pc,       \* where the interpreter stands
  ip,       \* the statement of the try block that is next (0: outside the block)
  cur,      \* df_features: the reference the invocation works on (0: none)
  lib,      \* the local technical_indicator_library
  log,      \* what the invocation has printed
  results   \* what each finished invocation gave its caller

vars == <<env, arg, orig, heap, pc, ip, cur, lib, log, results>>

Lengths == {0, 2, MaxLen - 1, MaxLen}
Libraries == {"pandas", "talib", "TALIB"}
TalibLookbacks == {0, MaxLen - 1}
\* no fault, the first two statements, the last indicator of either backend
FaultPoints == {0, 1, 2, Len(TalibStmts) - 1, Len(PandasStmts) - 1}

Inputs ==
  {BarSeries(n, c, v, AllInputCols) : n \in Lengths, c \in ClosePatterns, v \in VolumePatterns}
  \cup {BarSeries(n, "zigzag", "varied", cs) : n \in Lengths, cs \in ColumnSets}

\* An assignment in place of the copy: the same table object under a second name.
DfAlias(h, r) == [heap |-> h, ref |-> r]

\* df.copy(): a new table object with the same content
DfCopy(h, r) ==
  LET new == 1 + Cardinality(DOMAIN h)
  IN  [heap |-> (new :> h[r]) @@ h, ref |-> new]

\* What an invocation gives its caller: kind is "table" (tbl is returned),
\* "None" (None is returned) or the name of the exception that left it.
Result(kind, tbl, printed) == [kind |-> kind, tbl |-> tbl, log |-> printed]

\* A printed line: what it reports and the number it carries.
Msg(what, n) == <<what, n>>

\* The working table goes with the invocation, unless it is the caller's own.
Release(h, r) == IF r = arg.df THEN h ELSE [x \in DOMAIN h \ {r} |-> h[x]]

\* The statements of the backend the local library name selects (lines 56, 86).
Block(name) == IF Lower(name) = "talib" THEN TalibStmts ELSE PandasStmts

Init ==
  /\ env \in [talib : BOOLEAN, fault : FaultPoints, lookback : TalibLookbacks]
  /\ arg \in [df : {0, 1}, lib : Libraries]
  /\ (Lower(arg.lib) # "talib" => env.lookback = 0)
  /\ IF arg.df = 0
     THEN orig = EmptyTable /\ heap = << >>
     ELSE orig \in Inputs /\ heap = (1 :> orig)
  /\ pc = "load"
  /\ ip = 0
  /\ cur = 0
  /\ lib = ""
  /\ log = << >>
  /\ results = << >>

\* Lines 1-5: the module's imports; `import talib` is unconditional.
ImportModule ==
  /\ pc = "load"
  /\ pc' = IF env.talib THEN "idle" ELSE "ImportError"
  /\ UNCHANGED <<env, arg, orig, heap, ip, cur, lib, log, results>>

\* Lines 28-30: None or an empty table is reported and None returned.
CallInvalid ==
  /\ pc = "idle"
  /\ Len(results) < MaxRuns
  /\ IF arg.df = 0 THEN TRUE ELSE IsEmpty(heap[arg.df])
  /\ results' = Append(results, Result("None", EmptyTable, <<Msg("error_empty", 0)>>))
  /\ UNCHANGED <<env, arg, orig, heap, pc, ip, cur, lib, log>>

\* Lines 28-35: a valid table is copied and the work starts on the copy.
CallCopy ==
  /\ pc = "idle"
  /\ Len(results) < MaxRuns
  /\ arg.df # 0
  /\ ~IsEmpty(heap[arg.df])
  /\ LET c == DfCopy(heap, arg.df)
     IN  heap' = c.heap /\ cur' = c.ref
  /\ lib' = arg.lib
  /\ log' = <<Msg("start", 0)>>
  /\ pc' = "daily_return"
  /\ UNCHANGED <<env, arg, orig, ip, results>>

\* An exception that nothing catches ends the invocation.
Propagate(exc, h) ==
  /\ results' = Append(results, Result(exc, EmptyTable, log))
  /\ heap' = Release(h, cur)
  /\ cur' = 0
  /\ lib' = ""
  /\ log' = << >>
  /\ ip' = 0
  /\ pc' = "idle"

\* Line 39: outside the try block, so a missing Close column is a KeyError.
DailyReturn ==
  /\ pc = "daily_return"
  /\ IF HasCol(heap[cur], "Close")
     THEN /\ heap' = [heap EXCEPT ![cur] =
                        SetCol(@, "daily_return", PctChange(@.data["Close"]))]
          /\ pc' = "backend"
          /\ UNCHANGED <<ip, cur, lib, log, results>>
     ELSE Propagate("KeyError", heap)
  /\ UNCHANGED <<env, arg, orig>>

\* Lines 50-54: the second import of talib, and the fallback when it fails.
ResolveLibrary(name, talib) ==
  IF Lower(name) = "talib" /\ ~talib THEN "pandas" ELSE name

\* Lines 45-56: the try block is entered and the backend chosen.
Backend ==
  /\ pc = "backend"
  /\ lib' = ResolveLibrary(lib, env.talib)
  /\ log' = IF lib' # lib THEN Append(log, Msg("talib_fallback", 0)) ELSE log
  /\ ip' = 1
  /\ pc' = "block"
  /\ UNCHANGED <<env, arg, orig, heap, cur, results>>

\* Lines 58-124: one statement of the try block runs to its end.
Statement ==
  /\ pc = "block"
  /\ ~Raises(Block(lib), ip, heap[cur], env.fault)
  /\ heap' = [heap EXCEPT ![cur] = Exec(Block(lib)[ip], @, env.lookback)]
  /\ log' = IF Block(lib)[ip] = "drop" THEN Append(log, Msg("used_" \o Lower(lib), 0)) ELSE log
  /\ IF ip = Len(Block(lib))
     THEN ip' = 0 /\ pc' = "lags"
     ELSE ip' = ip + 1 /\ pc' = pc
  /\ UNCHANGED <<env, arg, orig, cur, lib, results>>

\* Lines 126-127: a statement raised; the except clause reports it and the
\* rest of the block is skipped.
Caught ==
  /\ pc = "block"
  /\ Raises(Block(lib), ip, heap[cur], env.fault)
  /\ log' = Append(log, Msg("indicator_error", ip))
  /\ ip' = 0
  /\ pc' = "lags"
  /\ UNCHANGED <<env, arg, orig, heap, cur, lib, results>>

\* Lines 130-137
Lags ==
  /\ pc = "lags"
  /\ LET run == LagStage(heap[cur])
     IN  IF run.raised
         THEN Propagate("KeyError", [heap EXCEPT ![cur] = run.tbl])
         ELSE /\ heap' = [heap EXCEPT ![cur] = run.tbl]
              /\ pc' = "interactions"
              /\ UNCHANGED <<ip, cur, lib, log, results>>
  /\ UNCHANGED <<env, arg, orig>>

\* Lines 139-152
Interactions ==
  /\ pc = "interactions"
  /\ heap' = [heap EXCEPT ![cur] = InteractionStage(@)]
  /\ pc' = "trim"
  /\ UNCHANGED <<env, arg, orig, ip, cur, lib, log, results>>

\* Lines 154-175: the rows with a NaN go, and the table is returned.
Trim ==
  /\ pc = "trim"
  /\ LET before == heap[cur]
         after == DropNa(before)
         said == Append(log, Msg("removed", Len(before.index) - Len(after.index)))
     IN  /\ results' = Append(results, Result("table", after, said))
         /\ heap' = Release([heap EXCEPT ![cur] = after], cur)
  /\ cur' = 0
  /\ lib' = ""
  /\ log' = << >>
  /\ pc' = "idle"
  /\ UNCHANGED <<env, arg, orig, ip>>

Next ==
  \/ ImportModule
  \/ CallInvalid
  \/ CallCopy
  \/ DailyReturn
  \/ Backend
  \/ Statement
  \/ Caught
  \/ Lags
  \/ Interactions
  \/ Trim

Spec == Init /\ [][Next]_vars

\* ------------------------------------------------------------- claims
Finished == 1..Len(results)
Returned(k) == results[k].kind = "table"
Said(k, what) == \E j \in 1..Len(results[k].log) : results[k].log[j][1] = what
AllNaN(q) == \A i \in 1..Len(q) : IsNaN(q[i])
Max(S) == CHOOSE x \in S : \A y \in S : y <= x

\* The input is a valid Bar Series: every column, at least one row.
ValidInput == arg.df # 0 /\ Range(orig.cols) = Range(AllInputCols) /\ Len(orig.index) > 0

\* The indicator columns and the columns of a complete Feature Table.
IndicatorColumns ==
  {"SMA_5", "EMA_5", "SMA_10", "EMA_10", "RSI", "MACD", "MACD_Signal",
   "Bollinger_Upper", "Bollinger_Lower", "OBV"}
FeatureColumns ==
  Range(AllInputCols) \cup {"daily_return"} \cup IndicatorColumns
  \cup {LagSpecs[k].col : k \in 1..Len(LagSpecs)}
  \cup {"Price_vs_SMA10", "Volume_vs_Avg_Vol10"}
HelperColumns == {"SMA_BB", "STD_BB", "Avg_Volume_10"}

\* The indicator columns a statement of the block assigns.
Writes(stmt) ==
  CASE stmt \in IndicatorColumns -> {stmt}
    [] stmt = "ta_SMA_5" -> {"SMA_5"}
    [] stmt = "ta_EMA_5" -> {"EMA_5"}
    [] stmt = "ta_SMA_10" -> {"SMA_10"}
    [] stmt = "ta_EMA_10" -> {"EMA_10"}
    [] stmt = "ta_RSI" -> {"RSI"}
    [] stmt = "ta_MACD" -> {"MACD", "MACD_Signal"}
    [] stmt = "ta_BBANDS" -> {"Bollinger_Upper", "Bollinger_Lower"}
    [] stmt = "ta_OBV" -> {"OBV"}
    [] OTHER -> {}

\* The warm-up the configured parameters give: the longest lookback of a feature.
WarmUp ==
  Max({SmaShort - 1, SmaLong - 1, BbWindow - 1, AvgVolWindow - 1}
      \cup {LagSpecs[k].by : k \in 1..Len(LagSpecs)})

\* C1: every table create_features returns is dense: no cell of any returned
\* row is NaN, on either backend and also when the indicator block raised.
C1_ReturnedTableIsDense ==
  \A k \in Finished :
    Returned(k) =>
      \A c \in Range(results[k].tbl.cols) : \A i \in 1..Len(results[k].tbl.index) :
        ~IsNaN(results[k].tbl.data[c][i])

\* C1 witness: a table with rows was returned although the block had raised.
C1_Witness ==
  \E k \in Finished :
    Returned(k) /\ Len(results[k].tbl.index) > 0 /\ Said(k, "indicator_error")

\* C2 (as claimed): on the default backend with no failure, a valid series of
\* N >= warm-up rows loses exactly its first warm-up rows, whatever its values.
C2_OnlyTheWarmUpPrefixIsTrimmed ==
  \A k \in Finished :
    (Returned(k) /\ ValidInput /\ Len(orig.index) >= WarmUp
       /\ Said(k, "used_pandas"))
    => results[k].tbl.index = [j \in 1..(Len(orig.index) - WarmUp) |-> WarmUp + j]

\* C3 (as claimed): a None or empty series, or one without Volume, makes the
\* invocation raise; it returns neither a table nor any other value.
C3_InvalidInputRaises ==
  \A k \in Finished :
    (arg.df = 0 \/ IsEmpty(orig) \/ ~HasCol(orig, "Volume"))
    => results[k].kind \notin {"table", "None"}

\* C3 (amended): a None or empty series makes the invocation return None; a
\* series with rows but no Volume column makes it raise KeyError; neither
\* returns a table.
C3_InvalidInputGivesNoTable ==
  \A k \in Finished :
    /\ (arg.df = 0 \/ IsEmpty(orig)) => results[k].kind = "None"
    /\ (arg.df # 0 /\ ~IsEmpty(orig) /\ ~HasCol(orig, "Volume"))
         => results[k].kind = "KeyError"

\* C3 witness: a series with rows and no Volume: the block caught the first
\* KeyError and the lag stage raised the second.
C3_Witness ==
  \E k \in Finished :
    /\ arg.df # 0 /\ ~IsEmpty(orig) /\ ~HasCol(orig, "Volume")
    /\ results[k].kind = "KeyError"
    /\ Said(k, "indicator_error")

\* C4 (as claimed): when a statement of the block raises on a valid series,
\* the columns of that statement are present and all NaN, and every other
\* indicator column is present and holds what its statement computes.
C4_FailureIsConfined ==
  (pc = "lags" /\ ValidInput /\ log # << >> /\ log[Len(log)][1] = "indicator_error") =>
    \A j \in 1..Len(Block(lib)) : \A c \in Writes(Block(lib)[j]) :
      /\ HasCol(heap[cur], c)
      /\ IF j = log[Len(log)][2]
         THEN AllNaN(heap[cur].data[c])
         ELSE Reads(Block(lib)[j]) \subseteq Range(heap[cur].cols)
              /\ heap[cur].data[c] = Exec(Block(lib)[j], heap[cur], env.lookback).data[c]

\* C5 (as claimed): every returned table has the one fixed column set.
C5_ColumnSetIsFixed ==
  \A k \in Finished : Returned(k) => Range(results[k].tbl.cols) = FeatureColumns

\* C6 (as claimed): no returned table holds a computation-only column.
C6_NoHelperColumnReturned ==
  \A k \in Finished : Returned(k) => Range(results[k].tbl.cols) \cap HelperColumns = {}

\* C7 (as claimed): with TA-Lib requested and not importable the engine does
\* not fail, and every invocation records the fallback and runs on pandas.
C7_FallbackToPandas ==
  (Lower(arg.lib) = "talib" /\ ~env.talib) =>
    /\ pc # "ImportError"
    /\ \A k \in Finished :
         Returned(k) => Said(k, "talib_fallback") /\ ~Said(k, "used_talib")

\* C8: the caller's table is never mutated: at every point of every
\* invocation, and after it, it holds the rows, columns and values it had.
C8_InputNeverMutated == arg.df # 0 => heap[arg.df] = orig

\* C8 witness: an invocation has returned a table that differs from the input
\* (columns added, rows trimmed).
C8_Witness ==
  \E k \in Finished :
    Returned(k) /\ Len(results[k].tbl.index) > 0
    /\ Len(results[k].tbl.index) < Len(orig.index)
    /\ Len(results[k].tbl.cols) > Len(orig.cols)

\* C9: invocations on the same input and configuration give the same outcome
\* and the same table.
C9_SameInputSameOutput ==
  \A j \in Finished : \A k \in Finished :
    results[j].kind = results[k].kind /\ results[j].tbl = results[k].tbl

\* C9 witness: two invocations have returned a table with rows.
C9_Witness ==
  /\ Len(results) >= 2
  /\ Returned(1) /\ Returned(2)
  /\ Len(results[2].tbl.index) > 0

\* The step the rule gives at row i: +Volume, -Volume or 0 by the comparison
\* of the close with the previous one.
ObvStep(close, volume, i) ==
  IF Gt0(Sub(close[i], close[i - 1])) THEN volume[i]
  ELSE IF Lt0(Sub(close[i], close[i - 1])) THEN NegV(volume[i])
  ELSE Zero

\* C11 (as claimed): the OBV column of the default backend is defined at
\* every row, starts at 0, and moves by the signed volume at every later row.
C11_ObvStepRule ==
  (cur # 0 /\ Lower(lib) # "talib" /\ HasCol(heap[cur], "OBV")) =>
    LET t == heap[cur] IN
      /\ \A i \in 1..Len(t.index) : ~IsNaN(t.data["OBV"][i])
      /\ t.data["OBV"][1] = Zero
      /\ \A i \in 2..Len(t.index) :
           Sub(t.data["OBV"][i], t.data["OBV"][i - 1])
             = ObvStep(t.data["Close"], t.data["Volume"], i)

\* The objects the `return` statement of invocation k hands to the caller:
\* line 175 returns the table alone, line 30 returns None, an exception
\* returns nothing.  What the invocation printed goes to the console only.
ReturnValue(k) ==
  IF results[k].kind = "table" THEN <<results[k].tbl>>
  ELSE IF results[k].kind = "None" THEN <<"None">>
  ELSE << >>

DiagnosticFields == {"rows_examined", "rows_dropped", "backend", "fallbacks"}

\* C12 (as claimed): every invocation that returns a table returns with it a
\* diagnostic record of the rows examined, the rows dropped, the backend used
\* and the fallback events.
C12_DiagnosticRecordReturned ==
  \A k \in Finished :
    Returned(k) =>
      /\ Len(ReturnValue(k)) = 2
      /\ DOMAIN ReturnValue(k)[2] = DiagnosticFields

\* Row i of table t has an undefined cell.
HasNaN(t, i) == \E c \in Range(t.cols) : IsNaN(t.data[c][i])

\* C13: the trimming step removes a row if and only if one of its cells is
\* NaN; the rows it keeps stay in their order, each with its date and with
\* the values it had, infinite and saturated ones included.
C13_TrimIsExactAndRowWise ==
  [][pc = "trim" =>
       LET before == heap[cur]
           after == results'[Len(results')].tbl
       IN  /\ results'[Len(results')].kind = "table"
           /\ after.cols = before.cols
           /\ \A i \in 1..Len(before.index) :
                HasNaN(before, i) <=> before.index[i] \notin Range(after.index)
           /\ \A j \in 1..Len(after.index) : \A k \in 1..Len(after.index) :
                j < k => after.index[j] < after.index[k]
           /\ \A j \in 1..Len(after.index) : \A i \in 1..Len(before.index) :
                before.index[i] = after.index[j]
                  => \A c \in Range(before.cols) : after.data[c][j] = before.data[c][i]
    ]_vars

\* C13 witness: a returned table keeps a row whose RSI is saturated at 100
\* (zero average loss), and rows were removed, one of them after a kept row.
C13_Witness ==
  \E k \in Finished :
    /\ Returned(k) /\ HasCol(results[k].tbl, "RSI")
    /\ \E j \in 1..Len(results[k].tbl.index) : results[k].tbl.data["RSI"][j] = Num(100)
    /\ \E i \in 1..Len(orig.index) : \E j \in 1..Len(results[k].tbl.index) :
         i > results[k].tbl.index[j] /\ i \notin Range(results[k].tbl.index)

\* the smoothed average gain and loss of lines 94-98
AvgGain(close) == EwmCom(Gain(Diff(close)), RsiCom)
AvgLoss(close) == EwmCom(Loss(Diff(close)), RsiCom)

\* C14 (as claimed): on the default backend, at every row after the first
\* where the smoothed average loss is exactly 0 the RSI is 100, also when the
\* smoothed average gain is 0 too.
C14_RsiSaturatesAtZeroLoss ==
  (cur # 0 /\ Lower(lib) # "talib" /\ HasCol(heap[cur], "RSI")) =>
    \A i \in 2..Len(heap[cur].index) :
      IsZero(AvgLoss(heap[cur].data["Close"])[i])
        => heap[cur].data["RSI"][i] = Num(100)

\* y is the exponential average of x with span n by the recurrence:
\* defined at every row, y[0] = x[0], y[t] = a*x[t] + (1-a)*y[t-1], a = 2/(n+1).
IsEma(y, x, n) ==
  /\ Len(y) = Len(x)
  /\ \A t \in 1..Len(y) : ~IsNaN(y[t])
  /\ Len(y) >= 1 => y[1] = x[1]
  /\ \A t \in 2..Len(y) :
       y[t] = Add(Mul(Mk(2, n + 1), x[t]), Mul(Mk(n - 1, n + 1), y[t - 1]))

=============================================================================
